---- MODULE Spec2Model ----
(***************************************************************************)
(* A model of lib/simctl.js: the command invoker (simCommand / simExec),   *)
(* the retried operations (launch, eraseDevice), createDevice,             *)
(* getScreenshot and the two device-list parsers (getDevicesByParsing,     *)
(* getDevices).                                                            *)
(*                                                                         *)
(* Strings are TLA+ strings; the JavaScript string functions the code      *)
(* uses (trim, split, replace, the two regular expressions) are operators  *)
(* that work on the characters.                                            *)
(*                                                                         *)
(* Reading of simctl.js line 34: as written (`env async (c, a, o,b) =>`)   *)
(* the line does not parse; it is line 40's `env, async (c, a, ob) =>`     *)
(* with its comma displaced, and it is modelled as that: simExec is        *)
(* simCommand with an executor that runs exec(c, a, ob).                   *)
(* Reading of createDevice (lines 83-100): the brace on line 100 closes    *)
(* the catch block and nothing closes the function; its body is modelled   *)
(* as written, ending after the catch block with no return statement.      *)
(***************************************************************************)
EXTENDS Integers, Sequences, FiniteSets, TLC

VARIABLES
  processEnv,   \* process.env
  calls,        \* the simCommand invocations in flight, one per task
  op            \* the high-level operation in progress (one at a time)

vars == <<processEnv, calls, op>>

----------------------------------------------------------------------------
(* Strings *)

Char(s, i) == SubSeq(s, i, i)

Rest(s, i) == SubSeq(s, i, Len(s))

\* the characters String.prototype.trim removes and \s matches
WhiteSpace == {" ", "\t", "\n", "\r"}

RECURSIVE TrimLeft(_)
TrimLeft(s) ==
  IF Len(s) > 0 /\ Char(s, 1) \in WhiteSpace THEN TrimLeft(Rest(s, 2)) ELSE s

RECURSIVE TrimRight(_)
TrimRight(s) ==
  IF Len(s) > 0 /\ Char(s, Len(s)) \in WhiteSpace
  THEN TrimRight(SubSeq(s, 1, Len(s) - 1))
  ELSE s

\* String.prototype.trim
Trim(s) == TrimRight(TrimLeft(s))

\* s has sub at position i
MatchAt(s, sub, i) ==
  /\ i >= 1
  /\ i + Len(sub) - 1 <= Len(s)
  /\ SubSeq(s, i, i + Len(sub) - 1) = sub

Contains(s, sub) == \E i \in 1..(Len(s) + 1) : MatchAt(s, sub, i)

\* the least element of a non-empty set of numbers
Min(S) == CHOOSE i \in S : \A j \in S : i <= j

Max(S) == CHOOSE i \in S : \A j \in S : i >= j

\* String.prototype.split(sep) for a one-character separator
RECURSIVE Split(_, _)
Split(s, sep) ==
  LET hits == {i \in 1..Len(s) : Char(s, i) = sep} IN
  IF hits = {} THEN <<s>>
  ELSE <<SubSeq(s, 1, Min(hits) - 1)>> \o Split(Rest(s, Min(hits) + 1), sep)

\* String.prototype.replace(pattern, by) for a string pattern: the first
\* occurrence only
ReplaceFirst(s, pattern, by) ==
  LET hits == {i \in 1..Len(s) : MatchAt(s, pattern, i)} IN
  IF hits = {} THEN s
  ELSE SubSeq(s, 1, Min(hits) - 1) \o by \o Rest(s, Min(hits) + Len(pattern))

----------------------------------------------------------------------------
(* simCommand: the child environment (lines 14-16) *)

EnvPrefix == "SIMCTL_CHILD_"

\* _.mapKeys(env, (value, key) => `SIMCTL_CHILD_${key}`): a new object
mapKeys(env) ==
  [n \in {EnvPrefix \o k : k \in DOMAIN env} |->
     env[Rest(n, Len(EnvPrefix) + 1)]]

\* defaults with the fault that the source's values win
defaultsSourceWins(object, source) ==
  [n \in DOMAIN object \cup DOMAIN source |->
     IF n \in DOMAIN source THEN source[n] ELSE object[n]]

\* _.defaults(object, source): object, with source's properties for the
\* names object does not have
defaults(object, source) ==
  [n \in DOMAIN object \cup DOMAIN source |->
     IF n \in DOMAIN object THEN object[n] ELSE source[n]]

\* simCommandEnv with the fault that the overrides are written into process.env
simCommandEnvShared(env, procEnv) ==
  LET merged == defaults(mapKeys(env), procEnv) IN
  [child |-> merged, procEnv |-> merged, env |-> env]

\* What lines 14-16 leave behind: the environment handed to the executor,
\* process.env, and the caller's mapping (mapKeys builds a new object and
\* defaults writes into that one).
simCommandEnv(env, procEnv) ==
  [child |-> defaults(mapKeys(env), procEnv), procEnv |-> procEnv, env |-> env]

----------------------------------------------------------------------------
(* simCommand: the outcome (lines 18-30) *)

\* an Error object: its message and the stderr it carries, if any
Err(message, hasStderr, stderr) ==
  [message |-> message, hasStderr |-> hasStderr, stderr |-> stderr]

Returned(v) == [kind |-> "returned", value |-> v, error |-> Err("", FALSE, "")]

Threw(e) == [kind |-> "threw", value |-> "", error |-> e]

\* `return undefined`: a function body that ends without a return
Undefined == "<undefined>"

\* if (e.stderr): undefined and the empty string are falsy
HasStderrText(e) == e.hasStderr /\ e.stderr # ""

\* log.errorAndThrow(x): logs, then throws x (an Error) or new Error(x)
errorAndThrow(e) == Threw(e)

\* simCommandCatch with the fault that a logged error is not thrown again
simCommandCatchLogsOnly(command, logErrors, e) ==
  IF ~logErrors THEN Threw(e) ELSE Returned(Undefined)

\* the catch block of simCommand, lines 20-30
simCommandCatch(command, logErrors, e) ==
  IF ~logErrors
  THEN Threw(e)
  ELSE IF HasStderrText(e)
       THEN errorAndThrow(Err("simctl error running '" \o command \o "': "
                               \o Trim(e.stderr), FALSE, ""))
       ELSE errorAndThrow(e)

\* simCommand from the executor's result on: lines 18-30
simCommandOutcome(command, logErrors, res) ==
  IF res.kind = "returned" THEN res
  ELSE simCommandCatch(command, logErrors, res.error)

\* simExec (lines 33-37): simCommand with exec as the executor
simExec(command, logErrors, res) == simCommandOutcome(command, logErrors, res)

----------------------------------------------------------------------------
(* Concurrent simCommand invocations *)

NTasks == 2

Tasks == 1..NTasks

Commands == {"spawn"}

\* the mappings callers pass as `env`
Overrides ==
  { <<>>,
    [k \in {"A"} |-> "1"],
    [k \in {"A"} |-> "2"],
    [k \in {"B"} |-> "1"],
    [k \in {"A", "B"} |-> IF k = "A" THEN "2" ELSE "3"] }

\* the process environments the model starts in
ProcessEnvs ==
  { <<>>,
    [n \in {"PATH"} |-> "/bin"],
    [n \in {"SIMCTL_CHILD_A"} |-> "old"],
    [n \in {"PATH", "SIMCTL_CHILD_A"} |-> IF n = "PATH" THEN "/bin" ELSE "old"] }

\* what the executor can fail with
ExecErrors ==
  { Err("Command failed", TRUE, "  boom\n"),
    Err("Command timed out", TRUE, ""),
    Err("spawn ENOENT", FALSE, "") }

ExecOk == Returned("out")

NoResult == [kind |-> "none", value |-> "", error |-> Err("", FALSE, "")]

IdleCall ==
  [pc |-> "idle", command |-> "", logErrors |-> TRUE,
   envArg |-> <<>>, callerEnv |-> <<>>, envAtCall |-> <<>>, child |-> <<>>,
   execRes |-> NoResult, outcome |-> NoResult]

IdleOp == [name |-> "none"]

InitCmd ==
  /\ processEnv \in ProcessEnvs
  /\ calls = [t \in Tasks |-> IdleCall]
  /\ op = IdleOp

\* simCommand up to its await: lines 9-19
simCommandCall(t, command, env, logErrors) ==
  /\ calls[t].pc = "idle"
  /\ LET built == simCommandEnv(env, processEnv) IN
     /\ processEnv' = built.procEnv
     /\ calls' = [calls EXCEPT ![t] =
          [pc |-> "awaiting", command |-> command, logErrors |-> logErrors,
           envArg |-> env, callerEnv |-> built.env, envAtCall |-> processEnv,
           child |-> built.child, execRes |-> NoResult, outcome |-> NoResult]]
  /\ UNCHANGED op

\* the executor settles: simCommand returns its value or runs its catch block
executorSettles(t, res) ==
  /\ calls[t].pc = "awaiting"
  /\ calls' = [calls EXCEPT ![t].pc = "done",
                            ![t].execRes = res,
                            ![t].outcome =
                               simCommandOutcome(calls[t].command,
                                                 calls[t].logErrors, res)]
  /\ UNCHANGED <<processEnv, op>>

\* the caller has the outcome; the task is free for another call
simCommandDone(t) ==
  /\ calls[t].pc = "done"
  /\ calls' = [calls EXCEPT ![t] = IdleCall]
  /\ UNCHANGED <<processEnv, op>>

NextCmd ==
  \/ \E t \in Tasks, c \in Commands, e \in Overrides, l \in BOOLEAN :
       simCommandCall(t, c, e, l)
  \/ \E t \in Tasks, res \in {ExecOk} \cup {Threw(e) : e \in ExecErrors} :
       executorSettles(t, res)
  \/ \E t \in Tasks : simCommandDone(t)

SpecCmd == InitCmd /\ [][NextCmd]_vars

\* C4: the environment handed to the executor holds SIMCTL_CHILD_k = E[k] for
\* every key k of the overrides E, every variable of the process environment
\* whose name is not one of those prefixed keys with its value unchanged, and
\* no other variable.
C4_EnvOverlay ==
  \A t \in Tasks :
    calls[t].pc # "idle" =>
      LET E == calls[t].envArg
          P == calls[t].envAtCall
          child == calls[t].child
          prefixed == {EnvPrefix \o k : k \in DOMAIN E}
      IN /\ \A k \in DOMAIN E :
              /\ (EnvPrefix \o k) \in DOMAIN child
              /\ child[EnvPrefix \o k] = E[k]
         /\ \A v \in DOMAIN P \ prefixed :
              v \in DOMAIN child /\ child[v] = P[v]
         /\ DOMAIN child \subseteq prefixed \cup DOMAIN P

\* a call whose override shadows a process variable of the same prefixed name
\* beside a process variable it leaves alone
C4_Witness ==
  \E t \in Tasks :
    /\ calls[t].pc = "awaiting"
    /\ "A" \in DOMAIN calls[t].envArg
    /\ "SIMCTL_CHILD_A" \in DOMAIN calls[t].envAtCall
    /\ "PATH" \in DOMAIN calls[t].envAtCall
    /\ calls[t].child["SIMCTL_CHILD_A"] = "2"

\* C5: under any interleaving of simCommand calls, building a call's child
\* environment leaves process.env and the caller's mapping as they were, and
\* the child environment holds no SIMCTL_CHILD_* variable of another call: only
\* the call's own overrides and the process environment.
C5_EnvIsolation ==
  \A t \in Tasks :
    calls[t].pc # "idle" =>
      /\ processEnv = calls[t].envAtCall
      /\ calls[t].callerEnv = calls[t].envArg
      /\ DOMAIN calls[t].child \subseteq
           DOMAIN processEnv \cup {EnvPrefix \o k : k \in DOMAIN calls[t].envArg}

\* two calls in flight at once with different overrides
C5_Witness ==
  \E t, u \in Tasks :
    /\ t # u
    /\ calls[t].pc = "awaiting" /\ calls[u].pc = "awaiting"
    /\ DOMAIN calls[t].envArg = {"A"}
    /\ DOMAIN calls[u].envArg = {"B"}
    /\ "SIMCTL_CHILD_B" \notin DOMAIN calls[t].child
    /\ "SIMCTL_CHILD_A" \notin DOMAIN calls[u].child

\* C3: whenever the executor fails, simCommand throws and returns nothing;
\* with logErrors false it throws the executor's error itself, and with
\* logErrors true and stderr text on the error, an error whose message holds
\* the subcommand and the trimmed stderr.
C3_ErrorPropagation ==
  \A t \in Tasks :
    (calls[t].pc = "done" /\ calls[t].execRes.kind = "threw") =>
      LET e == calls[t].execRes.error
          out == calls[t].outcome
      IN /\ out.kind = "threw"
         /\ ~calls[t].logErrors => out.error = e
         /\ (calls[t].logErrors /\ HasStderrText(e)) =>
              /\ Contains(out.error.message, calls[t].command)
              /\ Contains(out.error.message, Trim(e.stderr))

\* a logged failure with stderr text that needs trimming
C3_Witness ==
  \E t \in Tasks :
    /\ calls[t].pc = "done"
    /\ calls[t].logErrors
    /\ calls[t].execRes.kind = "threw"
    /\ calls[t].execRes.error.stderr = "  boom\n"
    /\ calls[t].outcome.kind = "threw"
    /\ calls[t].outcome.error.message = "simctl error running 'spawn': boom"

----------------------------------------------------------------------------
(* The retried operations: launch and eraseDevice *)

MaxTries == 3

MaxTimeout == 1000

EraseExecTimeout == 10000

EraseRetryMillis == 200

Udid == "3CA6-E7DD"

OpsEnv == [n \in {"PATH"} |-> "/bin"]

InitOps ==
  /\ processEnv = OpsEnv
  /\ calls = [t \in Tasks |-> IdleCall]
  /\ op = IdleOp

\* the outcomes of exec for a command that prints nothing of interest
ExecResults == {ExecOk} \cup {Threw(e) : e \in ExecErrors}

\* retryInterval(times, ms, fn) at its start: no attempt made yet
RetryOp(name, arg, times, command, execTimeout) ==
  [name |-> name, arg |-> arg, pc |-> "retrying", times |-> times,
   command |-> command, execTimeout |-> execTimeout,
   history |-> <<>>, outcome |-> NoResult]

\* launch with the fault of asking for one attempt too few
launchOneFewer(tries) ==
  /\ op = IdleOp
  /\ op' = RetryOp("launch", tries, tries - 1, Udid, 0)
  /\ UNCHANGED <<processEnv, calls>>

\* launch (lines 52-56) up to its first attempt
launch(tries) ==
  /\ op = IdleOp
  /\ op' = RetryOp("launch", tries, tries, Udid, 0)
  /\ UNCHANGED <<processEnv, calls>>

\* parseInt(timeout / 200, 10) for a timeout that is a natural number
eraseRetries(timeout) == timeout \div EraseRetryMillis

\* eraseDevice (lines 107-114) up to its first attempt
eraseDevice(timeout) ==
  /\ op = IdleOp
  /\ op' = RetryOp("eraseDevice", timeout, eraseRetries(timeout), "erase",
                   EraseExecTimeout)
  /\ UNCHANGED <<processEnv, calls>>

\* One turn of retryInterval's loop, entered while fewer than `times` attempts
\* were made: the wrapped simExec runs; its success ends the loop, its failure
\* is thrown on when it was the last attempt and swallowed (after the sleep)
\* otherwise.
retryIntervalAttempt(res) ==
  /\ op.name \in {"launch", "eraseDevice"}
  /\ op.pc = "retrying"
  /\ Len(op.history) < op.times
  /\ LET out == simExec(op.command, TRUE, res)
         hist == Append(op.history, [timeout |-> op.execTimeout, out |-> out])
     IN op' = [op EXCEPT
                 !.history = hist,
                 !.pc = IF out.kind = "returned" \/ Len(hist) >= op.times
                        THEN "done" ELSE "retrying",
                 !.outcome = IF out.kind = "returned" THEN Returned(Undefined)
                             ELSE IF Len(hist) >= op.times THEN Threw(out.error)
                             ELSE NoResult]
  /\ UNCHANGED <<processEnv, calls>>

\* retryInterval's loop is not entered (times < 1): it returns without a call
retryIntervalNoAttempt ==
  /\ op.name \in {"launch", "eraseDevice"}
  /\ op.pc = "retrying"
  /\ Len(op.history) >= op.times
  /\ op' = [op EXCEPT !.pc = "done", !.outcome = Returned(Undefined)]
  /\ UNCHANGED <<processEnv, calls>>

\* the caller has the operation's outcome
opDone ==
  /\ op # IdleOp
  /\ op.pc = "done"
  /\ op' = IdleOp
  /\ UNCHANGED <<processEnv, calls>>

AllThrew(h, n) == \A i \in 1..n : h[i].out.kind = "threw"

\* C2: launch with k >= 1 tries: it succeeds when an attempt succeeds after
\* failures only, it fails with the k-th attempt's failure when all k attempts
\* fail, and the command runs exactly k times then, never more than k times.
C2_LaunchRetries ==
  (op.name = "launch" /\ op.arg >= 1) =>
    LET k == op.arg
        h == op.history
        n == Len(op.history)
    IN /\ n <= k
       /\ AllThrew(h, n - 1)
       /\ op.pc = "retrying" => (n < k /\ AllThrew(h, n))
       /\ op.pc = "done" =>
            /\ n >= 1
            /\ h[n].out.kind = "returned" => op.outcome = Returned(Undefined)
            /\ h[n].out.kind = "threw" =>
                 /\ n = k
                 /\ op.outcome = Threw(h[k].out.error)

\* launch with three tries that failed twice, differently, and then succeeded
C2_Witness ==
  /\ op.name = "launch"
  /\ op.pc = "done"
  /\ op.arg = 3
  /\ Len(op.history) = 3
  /\ op.history[1].out.kind = "threw"
  /\ op.history[2].out.kind = "threw"
  /\ op.history[1].out.error # op.history[2].out.error
  /\ op.outcome.kind = "returned"

\* C10: eraseDevice(udid, timeout), for every timeout: erase runs, each attempt
\* with an execution timeout of 10000 ms, until the first success or until
\* floor(timeout / 200) attempts were made; eraseDevice succeeds only if some
\* attempt succeeded and fails with the last attempt's failure otherwise.
C10_ErasePolicy ==
  (op.name = "eraseDevice" /\ op.pc = "done") =>
    LET h == op.history
        n == Len(op.history)
    IN /\ n >= 1
       /\ n <= op.arg \div 200
       /\ \A i \in 1..n : h[i].timeout = 10000
       /\ AllThrew(h, n - 1)
       /\ op.outcome.kind = "returned" => h[n].out.kind = "returned"
       /\ h[n].out.kind = "threw" =>
            /\ n = op.arg \div 200
            /\ op.outcome = Threw(h[n].out.error)

----------------------------------------------------------------------------
(* createDevice *)

DeviceTypeId == "iPhone-8"

\* what `create` can print, with the udid its final line announces (if any)
CreateOutputs ==
  { [stdout |-> "Create Ended: 1234-ABCD | iPhone 8, iOS 13.0",
     ended |-> TRUE, udid |-> "1234-ABCD"],
    [stdout |-> "Creating\nCreate Ended: 77-XY | iPad 2\n",
     ended |-> TRUE, udid |-> "77-XY"],
    [stdout |-> "Create Failed", ended |-> FALSE, udid |-> ""],
    [stdout |-> Undefined, ended |-> FALSE, udid |-> ""] }

\* lines 88-89: the udid taken from the final line of stdout
createDeviceUdid(stdout) ==
  LET lines == Split(Trim(stdout), "\n")
      finalLine == ReplaceFirst(lines[Len(lines)], "Create Ended: ", "")
  IN Trim(Split(finalLine, "|")[1])

\* the catch block of createDevice, lines 90-98
createDeviceCatch(deviceTypeId, e) ==
  IF HasStderrText(e)
  THEN errorAndThrow(Err("Could not create simulator. Reason: "
                          \o Trim(e.stderr), FALSE, ""))
  ELSE errorAndThrow(Err("Error creating device type: " \o deviceTypeId
                          \o " - Exception: ", FALSE, ""))

\* out.stdout.trim() on an out without stdout
TypeError == Err("Cannot read property 'trim' of undefined", FALSE, "")

\* createDevice, lines 83-100: the function body ends after the catch block,
\* with udid assigned and not returned
createDevice(deviceTypeId, sample, res) ==
  /\ op = IdleOp
  /\ LET out == simExec("create", TRUE, res)
         parsed == out.kind = "returned" /\ out.value # Undefined
     IN op' = [name |-> "createDevice", pc |-> "done",
               sample |-> sample, execRes |-> res,
               udid |-> IF parsed THEN createDeviceUdid(out.value) ELSE Undefined,
               outcome |->
                 IF out.kind = "threw"
                 THEN createDeviceCatch(deviceTypeId, out.error)
                 ELSE IF out.value = Undefined
                      THEN createDeviceCatch(deviceTypeId, TypeError)
                      ELSE Returned(Undefined)]
  /\ UNCHANGED <<processEnv, calls>>

\* C9: when create succeeds and its final line is `Create Ended: <udid> | ...`
\* createDevice yields <udid>; when the command fails or the output cannot be
\* parsed it fails.
C9_CreateDevice ==
  (op.name = "createDevice" /\ op.pc = "done") =>
    /\ (op.execRes.kind = "returned" /\ op.sample.ended) =>
          op.outcome = Returned(op.sample.udid)
    /\ (op.execRes.kind = "threw" \/ ~op.sample.ended) =>
          op.outcome.kind = "threw"

----------------------------------------------------------------------------
(* getScreenshot *)

ReadError == Err("ENOENT: no such file or directory", FALSE, "")

RimrafError == Err("EACCES: permission denied", FALSE, "")

TempDirError == Err("ENOSPC: no space left on device", FALSE, "")

PngBytes == "PNG"

\* Buffer.prototype.toString('base64') of the three bytes "PNG"
Base64(bytes) == IF bytes = "PNG" THEN "UE5H" ELSE Undefined

\* line 220: tempDir.path names a fresh path (and creates no file)
getScreenshot(allocated) ==
  /\ op = IdleOp
  /\ op' = IF allocated
           THEN [name |-> "getScreenshot", pc |-> "exec", tmp |-> "allocated",
                 file |-> FALSE, img |-> "", outcome |-> NoResult]
           ELSE [name |-> "getScreenshot", pc |-> "done", tmp |-> "none",
                 file |-> FALSE, img |-> "", outcome |-> Threw(TempDirError)]
  /\ UNCHANGED <<processEnv, calls>>

\* line 221: the tool writes the PNG, or fails (having written a file or not)
getScreenshotExec(res, wrote) ==
  /\ op.name = "getScreenshot"
  /\ op.pc = "exec"
  /\ LET out == simExec("io", TRUE, res) IN
     op' = IF out.kind = "returned"
           THEN [op EXCEPT !.pc = "read", !.file = TRUE]
           ELSE [op EXCEPT !.pc = "done", !.file = wrote,
                           !.outcome = Threw(out.error)]
  /\ UNCHANGED <<processEnv, calls>>

\* line 222: fs.readFile
getScreenshotRead(ok) ==
  /\ op.name = "getScreenshot"
  /\ op.pc = "read"
  /\ op' = IF ok
           THEN [op EXCEPT !.pc = "rimraf", !.img = PngBytes]
           ELSE [op EXCEPT !.pc = "done", !.outcome = Threw(ReadError)]
  /\ UNCHANGED <<processEnv, calls>>

\* lines 223-224: fs.rimraf, then the return
getScreenshotRimraf(ok) ==
  /\ op.name = "getScreenshot"
  /\ op.pc = "rimraf"
  /\ op' = IF ok
           THEN [op EXCEPT !.pc = "done", !.tmp = "removed", !.file = FALSE,
                           !.outcome = Returned(Base64(op.img))]
           ELSE [op EXCEPT !.pc = "done", !.tmp = "removeFailed",
                           !.outcome = Threw(RimrafError)]
  /\ UNCHANGED <<processEnv, calls>>

\* C1: on every exit path of getScreenshot (the tool succeeds or fails, the
\* read succeeds or fails) the temporary path allocated at the start has been
\* removed when the call completes.
C1_TempPathRemoved ==
  (/\ op.name = "getScreenshot"
   /\ op.pc = "done"
   /\ op.tmp \notin {"none", "removeFailed"}) => op.tmp = "removed"

NextOps ==
  \/ \E tries \in 0..MaxTries : launch(tries)
  \/ \E timeout \in 0..MaxTimeout : eraseDevice(timeout)
  \/ \E res \in ExecResults : retryIntervalAttempt(res)
  \/ retryIntervalNoAttempt
  \/ \E sample \in CreateOutputs :
       \E res \in {Returned(sample.stdout)} \cup {Threw(e) : e \in ExecErrors} :
         createDevice(DeviceTypeId, sample, res)
  \/ \E allocated \in BOOLEAN : getScreenshot(allocated)
  \/ \E res \in ExecResults, wrote \in BOOLEAN : getScreenshotExec(res, wrote)
  \/ \E ok \in BOOLEAN : getScreenshotRead(ok)
  \/ \E ok \in BOOLEAN : getScreenshotRimraf(ok)
  \/ opDone

SpecOps == InitOps /\ [][NextOps]_vars

----------------------------------------------------------------------------
(* The regular expressions of getDevicesByParsing *)

\* \w
WordChars ==
  { "a", "b", "c", "d", "e", "f", "g", "h", "i", "j", "k", "l", "m",
    "n", "o", "p", "q", "r", "s", "t", "u", "v", "w", "x", "y", "z",
    "A", "B", "C", "D", "E", "F", "G", "H", "I", "J", "K", "L", "M",
    "N", "O", "P", "Q", "R", "S", "T", "U", "V", "W", "X", "Y", "Z",
    "0", "1", "2", "3", "4", "5", "6", "7", "8", "9", "_" }

\* . (any character but a line terminator)
IsDot(c) == c \notin {"\n", "\r"}

AllDots(s, i, j) == \A k \in i..j : IsDot(Char(s, k))

AllWord(s, i, j) == \A k \in i..j : Char(s, k) \in WordChars

\* where a greedy .+ that starts at i stops: the last character before the
\* next line terminator (i - 1 when there is none to take)
LineEnd(s, i) ==
  Min({j \in i..Len(s) : ~IsDot(Char(s, j))} \cup {Len(s) + 1}) - 1

\* /-- iOS (.+) --/ at i: the ends the capture can have
HeaderCaptureEnds(s, i) ==
  IF MatchAt(s, "-- iOS ", i)
  THEN {e \in (i + 7)..LineEnd(s, i + 7) : MatchAt(s, " --", e + 1)}
  ELSE {}

\* (\n\s{4}.+) right after position e
ContinuesAfter(s, e) ==
  /\ e + 6 <= Len(s)
  /\ Char(s, e + 1) = "\n"
  /\ \A k \in (e + 2)..(e + 5) : Char(s, k) \in WhiteSpace
  /\ IsDot(Char(s, e + 6))

\* (\n\s{4}.+)* after position e, greedy: the end of the match
RECURSIVE SectionEnd(_, _)
SectionEnd(s, e) ==
  IF ContinuesAfter(s, e) THEN SectionEnd(s, LineEnd(s, e + 6)) ELSE e

\* deviceSectionRe.exec(stdout) in a loop (the g flag: each search starts
\* where the last match ended): the matches, as [0] and [1]
RECURSIVE SectionMatches(_, _)
SectionMatches(s, from) ==
  LET starts == {i \in from..Len(s) : HeaderCaptureEnds(s, i) # {}} IN
  IF starts = {} THEN <<>>
  ELSE LET i == Min(starts)
           c == Max(HeaderCaptureEnds(s, i))
           e == SectionEnd(s, c + 3)
       IN <<[whole |-> SubSeq(s, i, e), sdk |-> SubSeq(s, i + 7, c)]>>
            \o SectionMatches(s, e + 1)

\* (\w+-.+\w+) from u to e: word characters up to a hyphen, then at least one
\* character, then a word character last
UdidMatches(line, u, e) ==
  LET stops == {h \in u..Len(line) : Char(line, h) \notin WordChars} IN
  /\ stops # {}
  /\ Min(stops) > u
  /\ Char(line, Min(stops)) = "-"
  /\ e >= Min(stops) + 2
  /\ AllDots(line, Min(stops) + 1, e)
  /\ Char(line, e) \in WordChars

\* (\w+\s?\w+)\) from v: the end of the capture, 0 when there is no match
StateEnd(line, v) ==
  LET closes == {k \in v..Len(line) : Char(line, k) = ")"} IN
  IF closes = {} THEN 0
  ELSE LET e == Min(closes) - 1 IN
       IF /\ e >= v + 1
          /\ \/ AllWord(line, v, e)
             \/ \E m \in (v + 1)..(e - 1) :
                  /\ Char(line, m) \in WhiteSpace
                  /\ AllWord(line, v, m - 1)
                  /\ AllWord(line, m + 1, e)
       THEN e ELSE 0

\* lineRe.exec(line): /([^\s].+) \((\w+-.+\w+)\) \((\w+\s?\w+)\)/, the
\* leftmost match with each .+ as long as it can be; null is [matched |-> FALSE]
lineRe(line) ==
  LET n == Len(line)
      starts == {i \in 1..n : Char(line, i) \notin WhiteSpace}
      nameEnds == {e \in 1..n : MatchAt(line, " (", e + 1)}
      udidEnds == {e \in 1..n : /\ MatchAt(line, ") (", e + 1)
                                /\ StateEnd(line, e + 4) # 0}
      \* <<start, end of the name, end of the udid>> of every way to match
      ways == {w \in starts \X nameEnds \X udidEnds :
                 /\ w[1] < w[2]
                 /\ AllDots(line, w[1] + 1, w[2])
                 /\ w[3] > w[2] + 2
                 /\ UdidMatches(line, w[2] + 3, w[3])}
  IN IF ways = {}
     THEN [matched |-> FALSE, name |-> "", udid |-> "", state |-> ""]
     ELSE LET s0 == Min({w[1] : w \in ways})
              e1 == Max({w[2] : w \in {x \in ways : x[1] = s0}})
              e2 == Max({w[3] : w \in {x \in ways : x[1] = s0 /\ x[2] = e1}})
          IN [matched |-> TRUE,
              name |-> SubSeq(line, s0, e1),
              udid |-> SubSeq(line, e1 + 3, e2),
              state |-> SubSeq(line, e2 + 4, StateEnd(line, e2 + 4))]

----------------------------------------------------------------------------
(* getDevicesByParsing *)

MaxLines == 4

\* the lines `list devices` prints in the model; of each, whether it is a
\* section header (and of which sdk) and whether it has the shape
\* `name (udid) (state)` (and of which device)
ListLines ==
  << [text |-> "-- iOS 8.1 --", kind |-> "header", sdk |-> "8.1",
      name |-> "", udid |-> "", state |-> ""],
     [text |-> "-- iOS 8.2 --", kind |-> "header", sdk |-> "8.2",
      name |-> "", udid |-> "", state |-> ""],
     [text |-> "    iPhone 4s (3CA6-E7DD) (Shutdown)", kind |-> "device",
      sdk |-> "", name |-> "iPhone 4s", udid |-> "3CA6-E7DD",
      state |-> "Shutdown"],
     [text |-> "    iPad 2 (A99F-FFC3) (Booted)", kind |-> "device",
      sdk |-> "", name |-> "iPad 2", udid |-> "A99F-FFC3", state |-> "Booted"],
     [text |-> "    iPad 2 (Booted)", kind |-> "malformed", sdk |-> "",
      name |-> "", udid |-> "", state |-> ""],
     [text |-> "  iPad Air (Booted)", kind |-> "malformed", sdk |-> "",
      name |-> "", udid |-> "", state |-> ""],
     [text |-> "", kind |-> "empty", sdk |-> "",
      name |-> "", udid |-> "", state |-> ""] >>

\* the texts of at most MaxLines lines, as the lines' places in a catalogue
Texts(catalogue) ==
  UNION {[1..n -> 1..Len(catalogue)] : n \in 0..MaxLines}

\* the lines joined by line breaks: what the tool printed
RECURSIVE JoinLines(_, _)
JoinLines(catalogue, items) ==
  IF Len(items) = 0 THEN ""
  ELSE IF Len(items) = 1 THEN catalogue[items[1]].text
  ELSE catalogue[items[1]].text \o "\n" \o JoinLines(catalogue, Tail(items))

\* devices[sdk] = value
SetKey(devices, sdk, value) ==
  [k \in DOMAIN devices \cup {sdk} |-> IF k = sdk THEN value ELSE devices[k]]

\* sectionEntry with the list of an sdk kept when its header comes again
sectionEntryMerges(devices, sdk) ==
  IF sdk \in DOMAIN devices THEN devices ELSE SetKey(devices, sdk, <<>>)

\* line 146: devices[sdk] = []
sectionEntry(devices, sdk) == SetKey(devices, sdk, <<>>)

\* deviceLines with the fault that a line that does not match is passed over
RECURSIVE deviceLinesSkipping(_, _, _)
deviceLinesSkipping(devices, sdk, lines) ==
  IF lines = <<>> THEN [ok |-> TRUE, devices |-> devices, line |-> ""]
  ELSE LET lineMatch == lineRe(Head(lines)) IN
       IF ~lineMatch.matched
       THEN deviceLinesSkipping(devices, sdk, Tail(lines))
       ELSE deviceLinesSkipping(
              SetKey(devices, sdk,
                     Append(devices[sdk],
                            [name |-> lineMatch.name, udid |-> lineMatch.udid,
                             state |-> lineMatch.state, sdk |-> sdk])),
              sdk, Tail(lines))

\* lines 148-168: the loop over a section's lines; it ends at the first line
\* lineRe does not match
RECURSIVE deviceLines(_, _, _)
deviceLines(devices, sdk, lines) ==
  IF lines = <<>> THEN [ok |-> TRUE, devices |-> devices, line |-> ""]
  ELSE LET lineMatch == lineRe(Head(lines)) IN
       IF ~lineMatch.matched
       THEN [ok |-> FALSE, devices |-> devices, line |-> Head(lines)]
       ELSE deviceLines(
              SetKey(devices, sdk,
                     Append(devices[sdk],
                            [name |-> lineMatch.name, udid |-> lineMatch.udid,
                             state |-> lineMatch.state, sdk |-> sdk])),
              sdk, Tail(lines))

\* lines 144-169: the loop over the matches
RECURSIVE sectionLoop(_, _)
sectionLoop(devices, matches) ==
  IF matches = <<>> THEN [ok |-> TRUE, devices |-> devices, line |-> ""]
  ELSE LET match == Head(matches)
           done == deviceLines(sectionEntry(devices, match.sdk), match.sdk,
                               Tail(Split(match.whole, "\n")))
       IN IF done.ok THEN sectionLoop(done.devices, Tail(matches)) ELSE done

\* lines 129-171: getDevicesByParsing from stdout on
parseSections(stdout) ==
  LET matches == SectionMatches(stdout, 1) IN
  IF Len(matches) < 1
  THEN errorAndThrow(Err("Could not find device section", FALSE, ""))
  ELSE LET done == sectionLoop(<<>>, matches) IN
       IF done.ok THEN Returned(done.devices)
       ELSE Threw(Err("Could not match line: " \o done.line, FALSE, ""))

\* getDevicesByParsing, lines 116-172
getDevicesByParsing(items, res) ==
  /\ op = IdleOp
  /\ LET out == simExec("list", TRUE, res) IN
     op' = [name |-> "getDevicesByParsing", pc |-> "done", items |-> items,
            execRes |-> res,
            outcome |-> IF out.kind = "threw" THEN out
                        ELSE parseSections(out.value)]
  /\ UNCHANGED <<processEnv, calls>>

\* ---- what the text holds, read off its lines ----

Line(items, i) == ListLines[items[i]]

HeaderPlaces(items) ==
  {i \in 1..Len(items) : Line(items, i).kind = "header"}

\* the number of whitespace characters a line starts with
RECURSIVE Indent(_)
Indent(text) ==
  IF Len(text) > 0 /\ Char(text, 1) \in WhiteSpace
  THEN 1 + Indent(Rest(text, 2)) ELSE 0

\* After a line break before line k, with `need` whitespace characters still
\* to come before a section's next line: the line that next line is, 0 when
\* there is none. A line break counts as whitespace, so empty lines are
\* passed (and belong to the section) while `need` lasts.
RECURSIVE TakeLine(_, _, _)
TakeLine(items, k, need) ==
  IF k > Len(items) THEN 0
  ELSE LET text == Line(items, k).text IN
       IF Indent(text) >= need
       THEN (IF Len(text) > need THEN k ELSE 0)
       ELSE IF Len(text) = Indent(text)
            THEN TakeLine(items, k + 1, need - Len(text) - 1)
            ELSE 0

\* the last line of the section whose header is line j
RECURSIVE BlockEnd(_, _)
BlockEnd(items, j) ==
  IF TakeLine(items, j + 1, 4) = 0 THEN j
  ELSE BlockEnd(items, TakeLine(items, j + 1, 4))

\* the headers that open a section, from line `from` on: a header is looked
\* for after the section before it
RECURSIVE SectionHeaders(_, _)
SectionHeaders(items, from) ==
  LET hs == {i \in HeaderPlaces(items) : i >= from} IN
  IF hs = {} THEN {}
  ELSE {Min(hs)} \cup SectionHeaders(items, BlockEnd(items, Min(hs)) + 1)

\* the lines of the sections, their headers aside
BlockLines(items) ==
  UNION {(j + 1)..BlockEnd(items, j) : j \in SectionHeaders(items, 1)}

\* headers and well-formed, four-space indented device lines only
OnlyHeadersAndDevices(items) ==
  \A i \in 1..Len(items) : Line(items, i).kind \in {"header", "device"}

\* the records of the device lines that follow header j up to the next header
ExpectedRecords(items, j) ==
  LET later == {i \in HeaderPlaces(items) : i > j}
      last == IF later = {} THEN Len(items) ELSE Min(later) - 1
  IN [k \in 1..(last - j) |->
        [name |-> Line(items, j + k).name, udid |-> Line(items, j + k).udid,
         state |-> Line(items, j + k).state, sdk |-> Line(items, j).sdk]]

ParsedList ==
  /\ op.name = "getDevicesByParsing"
  /\ op.pc = "done"
  /\ op.execRes.kind = "returned"

\* C6 as claimed: for a text of N section headers, the i-th followed by Mi
\* well-formed device lines (two headers may carry the same sdk, a section may
\* have no device line), the inventory has exactly N keys, the i-th key's list
\* holds the Mi records in the order of the lines, and every record of
\* inventory[sdk] has sdk as its sdk.
C6_SectionInventory ==
  (/\ ParsedList
   /\ OnlyHeadersAndDevices(op.items)
   /\ HeaderPlaces(op.items) # {}) =>
     /\ op.outcome.kind = "returned"
     /\ Cardinality(DOMAIN op.outcome.value)
          = Cardinality(HeaderPlaces(op.items))
     /\ \A j \in HeaderPlaces(op.items) :
          /\ Line(op.items, j).sdk \in DOMAIN op.outcome.value
          /\ op.outcome.value[Line(op.items, j).sdk]
               = ExpectedRecords(op.items, j)
     /\ \A sdk \in DOMAIN op.outcome.value :
          \A k \in 1..Len(op.outcome.value[sdk]) :
            op.outcome.value[sdk][k].sdk = sdk

\* C6 as amended: the inventory has one key for each sdk that a header
\* carries (N keys when the N headers carry N different sdks); the list of an
\* sdk holds the records of the device lines of the last section that carries
\* it, in the order of the lines; every record of inventory[sdk] has sdk as
\* its sdk.
C6_SectionInventoryPerSdk ==
  (/\ ParsedList
   /\ OnlyHeadersAndDevices(op.items)
   /\ HeaderPlaces(op.items) # {}) =>
     LET hs == HeaderPlaces(op.items)
         lastOfSdk == {j \in hs : \A i \in hs :
                         Line(op.items, i).sdk = Line(op.items, j).sdk => i <= j}
     IN /\ op.outcome.kind = "returned"
        /\ DOMAIN op.outcome.value = {Line(op.items, j).sdk : j \in hs}
        /\ Cardinality(lastOfSdk) = Cardinality(hs) =>
             Cardinality(DOMAIN op.outcome.value) = Cardinality(hs)
        /\ \A j \in lastOfSdk :
             op.outcome.value[Line(op.items, j).sdk]
               = ExpectedRecords(op.items, j)
        /\ \A sdk \in DOMAIN op.outcome.value :
             \A k \in 1..Len(op.outcome.value[sdk]) :
               op.outcome.value[sdk][k].sdk = sdk

\* a section of two devices, in the order of its lines, before a section of
\* another sdk with no device
C6_Witness ==
  /\ ParsedList
  /\ op.items = <<1, 4, 3, 2>>
  /\ op.outcome.kind = "returned"
  /\ DOMAIN op.outcome.value = {"8.1", "8.2"}
  /\ Len(op.outcome.value["8.1"]) = 2
  /\ op.outcome.value["8.1"][1].udid = "A99F-FFC3"
  /\ op.outcome.value["8.1"][2].udid = "3CA6-E7DD"
  /\ op.outcome.value["8.2"] = <<>>

----------------------------------------------------------------------------
(* getDevices *)

\* the lines `list` prints in the model; of each, whether it has the five
\* fields udid|name|state|x|sdk (and which)
DelimitedLines ==
  << [text |-> "A1B2|iPhone 11|Booted|x|iOS 14.4", fields |-> TRUE,
      udid |-> "A1B2", name |-> "iPhone 11", state |-> "Booted",
      sdk |-> "iOS 14.4"],
     [text |-> " C3D4 | iPad Air | Shutdown | y | iOS 14.4 ", fields |-> TRUE,
      udid |-> "C3D4", name |-> "iPad Air", state |-> "Shutdown",
      sdk |-> "iOS 14.4"],
     [text |-> "E5F6|iPhone 8|Shutdown|x|iOS 13.0", fields |-> TRUE,
      udid |-> "E5F6", name |-> "iPhone 8", state |-> "Shutdown",
      sdk |-> "iOS 13.0"],
     [text |-> "", fields |-> FALSE,
      udid |-> "", name |-> "", state |-> "", sdk |-> ""],
     [text |-> "No devices|found", fields |-> FALSE,
      udid |-> "", name |-> "", state |-> "", sdk |-> ""] >>

\* forSdk = null, the default
Null == "<null>"

\* the values of forSdk in the model
Filters == {Null, "", "iOS 14.4", "iOS 13.0", "iOS 9.0"}

\* if (forSdk): null and the empty string are falsy
Truthy(v) == v \notin {Null, ""}

\* itemSegments[i] (i from 0 in the code, from 1 here): undefined past the end
Segment(segs, i) == IF i <= Len(segs) THEN segs[i] ELSE Undefined

\* devices[sdk] with sdk undefined is the property "undefined"
PropertyKey(v) == IF v = Undefined THEN "undefined" ELSE v

\* item.split('|').map((x) => x.trim())
itemSegments(item) ==
  LET parts == Split(item, "|") IN [i \in 1..Len(parts) |-> Trim(parts[i])]

\* deviceRecord with the fault that the name is taken from the fourth field
deviceRecordNameFromFourth(segs) ==
  [udid |-> Segment(segs, 1), name |-> Segment(segs, 4),
   state |-> Segment(segs, 3)]

\* lines 196-200: the record of a line
deviceRecord(segs) ==
  [udid |-> Segment(segs, 1), name |-> Segment(segs, 2),
   state |-> Segment(segs, 3)]

\* lines 192-201: the loop over the lines
RECURSIVE itemLoop(_, _)
itemLoop(devices, lines) ==
  IF lines = <<>> THEN devices
  ELSE LET segs == itemSegments(Head(lines))
           sdk == PropertyKey(Segment(segs, 5))
           list == IF sdk \in DOMAIN devices THEN devices[sdk] ELSE <<>>
       IN itemLoop(SetKey(devices, sdk, Append(list, deviceRecord(segs))),
                   Tail(lines))

\* lines 203-213: the list of forSdk, or every list
filterDevices(devices, forSdk) ==
  IF Truthy(forSdk)
  THEN IF forSdk \notin DOMAIN devices
       THEN Threw(Err("Sdk '" \o forSdk \o "' was not in list of simctl sdks",
                      FALSE, ""))
       ELSE Returned(devices[forSdk])
  ELSE Returned(devices)

\* getDevices, lines 187-214
getDevices(items, forSdk, res) ==
  /\ op = IdleOp
  /\ LET out == simExec("list", TRUE, res)
         devices == IF out.kind = "threw" THEN <<>>
                    ELSE itemLoop(<<>>, Split(out.value, "\n"))
     IN op' = [name |-> "getDevices", pc |-> "done", items |-> items,
               forSdk |-> forSdk, execRes |-> res, devices |-> devices,
               outcome |-> IF out.kind = "threw" THEN out
                           ELSE filterDevices(devices, forSdk)]
  /\ UNCHANGED <<processEnv, calls>>

\* ---- what the text holds, read off its lines ----

\* the records of the five-field lines whose fifth field is sdk, in order
RECURSIVE ExpectedList(_, _)
ExpectedList(items, sdk) ==
  IF items = <<>> THEN <<>>
  ELSE LET l == DelimitedLines[Head(items)] IN
       (IF l.fields /\ l.sdk = sdk
        THEN <<[udid |-> l.udid, name |-> l.name, state |-> l.state]>>
        ELSE <<>>) \o ExpectedList(Tail(items), sdk)

ListedSdks(items) ==
  {DelimitedLines[items[i]].sdk :
     i \in {k \in 1..Len(items) : DelimitedLines[items[k]].fields}}

\* C8: every line udid|name|state|x|sdk gives one record {udid, name, state},
\* its fields trimmed, in the list of the line's fifth field, the records in
\* the order of the lines; with a filter that no line carries getDevices fails
\* with the unknown-sdk error, with one that a line carries it returns that
\* sdk's list, and with no filter the whole inventory.
C8_DelimitedInventory ==
  (op.name = "getDevices" /\ op.pc = "done" /\ op.execRes.kind = "returned") =>
    /\ \A sdk \in ListedSdks(op.items) :
         /\ sdk \in DOMAIN op.devices
         /\ op.devices[sdk] = ExpectedList(op.items, sdk)
    /\ (Truthy(op.forSdk) /\ op.forSdk \notin ListedSdks(op.items)) =>
         op.outcome = Threw(Err("Sdk '" \o op.forSdk
                                  \o "' was not in list of simctl sdks",
                                FALSE, ""))
    /\ (Truthy(op.forSdk) /\ op.forSdk \in ListedSdks(op.items)) =>
         op.outcome = Returned(ExpectedList(op.items, op.forSdk))
    /\ ~Truthy(op.forSdk) => op.outcome = Returned(op.devices)

\* the list of an sdk asked for: two records, a line of another sdk between
\* their lines, the second from a line with blanks around its fields
C8_Witness ==
  /\ op.name = "getDevices"
  /\ op.pc = "done"
  /\ op.items = <<1, 3, 2>>
  /\ op.forSdk = "iOS 14.4"
  /\ op.outcome.kind = "returned"
  /\ Len(op.outcome.value) = 2
  /\ op.outcome.value[1] =
       [udid |-> "A1B2", name |-> "iPhone 11", state |-> "Booted"]
  /\ op.outcome.value[2] =
       [udid |-> "C3D4", name |-> "iPad Air", state |-> "Shutdown"]

NextParse ==
  \/ \E items \in Texts(ListLines) :
       getDevicesByParsing(items, Returned(JoinLines(ListLines, items)))
  \/ \E e \in ExecErrors : getDevicesByParsing(<<>>, Threw(e))
  \/ \E items \in Texts(DelimitedLines), forSdk \in Filters :
       getDevices(items, forSdk, Returned(JoinLines(DelimitedLines, items)))
  \/ \E e \in ExecErrors, forSdk \in Filters : getDevices(<<>>, forSdk, Threw(e))
  \/ opDone

SpecParse == InitOps /\ [][NextParse]_vars

====
